---- MODULE Spec2Model ----
(***************************************************************************)
(* A model of the pixconv colour engine: the transfer dispatch of          *)
(* src/color/mod.rs (scalar and slice forms), the primaries matrix builder *)
(* Primaries::to_xyz, the whitepoint table, and the PixelConvert           *)
(* implementation of src/impls/rgb.rs.                                     *)
(*                                                                         *)
(* The engine is stateless; the state of the model is the call a client    *)
(* has in flight (its operation, its arguments, what it got back).  A      *)
(* second specification, SpecPar, runs the in-place slice closures on      *)
(* disjoint chunks of one buffer, one worker per chunk.                    *)
(***************************************************************************)
EXTENDS Integers, Sequences, FiniteSets, TLC

VARIABLES pc, op, arg, fnptr, ret,
          shared, orig, pfn, chunks, wpc, wpos, wtmp

vars == <<pc, op, arg, fnptr, ret, shared, orig, pfn, chunks, wpc, wpos, wtmp>>
callVars == <<pc, op, arg, fnptr, ret>>
parVars == <<shared, orig, pfn, chunks, wpc, wpos, wtmp>>

(***************************************************************************)
(* Bounds of the model.                                                    *)
(***************************************************************************)
\* channel samples are Raw(0) .. Raw(MaxBase)
MaxBase == 1
\* buffers hold at most MaxLen pixels
MaxLen == 2
\* workers of the chunked run
NumWorkers == 2

(***************************************************************************)
(* enum Transfer (declared in color/transfer.rs; the variants are the arms *)
(* of the matches of mod.rs).                                              *)
(***************************************************************************)
Transfer ==
    {"Bt709", "Bt470M", "Bt601", "Smpte240", "Linear", "Srgb", "Bt2020_10bit",
     "Bt2020_12bit", "Smpte2084", "Bt2100Pq", "Bt2100Hlg", "Bt2100Scene"}

(***************************************************************************)
(* An f32 channel value of the transfer engine.  The numeric curves live   *)
(* in color/transfer.rs; each is a pure f32 -> f32 function, modelled as a *)
(* free function symbol: a value is the sample it started from and the     *)
(* curves applied to it so far, in order.  Two values are equal in the     *)
(* model only if the program computes them the same way.                   *)
(***************************************************************************)
Raw(n) == [base |-> n, app |-> <<>>]

Curve(name, x) == [x EXCEPT !.app = Append(@, name)]

transfer_eo_bt709(x) == Curve("transfer_eo_bt709", x)
transfer_eo_bt470m(x) == Curve("transfer_eo_bt470m", x)
transfer_eo_bt601(x) == Curve("transfer_eo_bt601", x)
transfer_eo_smpte240(x) == Curve("transfer_eo_smpte240", x)
transfer_eo_srgb(x) == Curve("transfer_eo_srgb", x)
transfer_eo_bt2020_10b(x) == Curve("transfer_eo_bt2020_10b", x)
transfer_eo_smpte2084(x) == Curve("transfer_eo_smpte2084", x)
transfer_oe_bt709(x) == Curve("transfer_oe_bt709", x)
transfer_oe_bt470m(x) == Curve("transfer_oe_bt470m", x)
transfer_oe_bt601(x) == Curve("transfer_oe_bt601", x)
transfer_oe_smpte240(x) == Curve("transfer_oe_smpte240", x)
transfer_oe_srgb(x) == Curve("transfer_oe_srgb", x)
transfer_oe_bt2020_10b(x) == Curve("transfer_oe_bt2020_10b", x)
transfer_oe_smpte2084(x) == Curve("transfer_oe_smpte2084", x)

\* the curve a path names (a function item passed to map, or pasted as $transfer)
ApplyPath(path, x) ==
    CASE path = "transfer_eo_bt709" -> transfer_eo_bt709(x)
      [] path = "transfer_eo_bt470m" -> transfer_eo_bt470m(x)
      [] path = "transfer_eo_bt601" -> transfer_eo_bt601(x)
      [] path = "transfer_eo_smpte240" -> transfer_eo_smpte240(x)
      [] path = "transfer_eo_srgb" -> transfer_eo_srgb(x)
      [] path = "transfer_eo_bt2020_10b" -> transfer_eo_bt2020_10b(x)
      [] path = "transfer_eo_smpte2084" -> transfer_eo_smpte2084(x)
      [] path = "transfer_oe_bt709" -> transfer_oe_bt709(x)
      [] path = "transfer_oe_bt470m" -> transfer_oe_bt470m(x)
      [] path = "transfer_oe_bt601" -> transfer_oe_bt601(x)
      [] path = "transfer_oe_smpte240" -> transfer_oe_smpte240(x)
      [] path = "transfer_oe_srgb" -> transfer_oe_srgb(x)
      [] path = "transfer_oe_bt2020_10b" -> transfer_oe_bt2020_10b(x)
      [] path = "transfer_oe_smpte2084" -> transfer_oe_smpte2084(x)

\* [r, g, b].map(path)
Map3(path, rgb) == <<ApplyPath(path, rgb[1]), ApplyPath(path, rgb[2]), ApplyPath(path, rgb[3])>>

(***************************************************************************)
(* What a call hands back: a value, or the unwinding of todo!().           *)
(***************************************************************************)
Value(v) == [kind |-> "value", value |-> v]
Panic == [kind |-> "panic", value |-> <<>>]

\* [r, g, b, a] from the mapped rgb and the untouched a
WithAlpha(rgb, a) == <<rgb[1], rgb[2], rgb[3], a>>

\* to_optical_display with a slip: the curve is mapped over all four
\* channels, alpha included
to_optical_display_alpha(self, value) ==
    CASE self \in {"Bt2020_12bit", "Bt2100Pq", "Bt2100Hlg", "Bt2100Scene"} -> Panic
      [] self = "Linear" -> Value(value)
      [] self = "Bt709" -> Value([k \in 1..4 |-> transfer_eo_bt709(value[k])])
      [] self = "Bt470M" -> Value([k \in 1..4 |-> transfer_eo_bt470m(value[k])])
      [] self = "Bt601" -> Value([k \in 1..4 |-> transfer_eo_bt601(value[k])])
      [] self = "Smpte240" -> Value([k \in 1..4 |-> transfer_eo_smpte240(value[k])])
      [] self = "Srgb" -> Value([k \in 1..4 |-> transfer_eo_srgb(value[k])])
      [] self = "Bt2020_10bit" -> Value([k \in 1..4 |-> transfer_eo_bt2020_10b(value[k])])
      [] self = "Smpte2084" -> Value([k \in 1..4 |-> transfer_eo_smpte2084(value[k])])

(***************************************************************************)
(* Transfer::to_optical_display                                            *)
(***************************************************************************)
to_optical_display(self, value) ==
    LET a == value[4]
        rgb == <<value[1], value[2], value[3]>>
    IN CASE self = "Bt709" -> Value(WithAlpha(Map3("transfer_eo_bt709", rgb), a))
         [] self = "Bt470M" -> Value(WithAlpha(Map3("transfer_eo_bt470m", rgb), a))
         [] self = "Bt601" -> Value(WithAlpha(Map3("transfer_eo_bt601", rgb), a))
         [] self = "Smpte240" -> Value(WithAlpha(Map3("transfer_eo_smpte240", rgb), a))
         [] self = "Linear" -> Value(WithAlpha(rgb, a))
         [] self = "Srgb" -> Value(WithAlpha(Map3("transfer_eo_srgb", rgb), a))
         [] self = "Bt2020_10bit" -> Value(WithAlpha(Map3("transfer_eo_bt2020_10b", rgb), a))
         [] self = "Bt2020_12bit" -> Panic
         [] self = "Smpte2084" -> Value(WithAlpha(Map3("transfer_eo_smpte2084", rgb), a))
         [] self = "Bt2100Pq" -> Panic
         [] self = "Bt2100Hlg" -> Panic
         [] self = "Bt2100Scene" -> Panic

(***************************************************************************)
(* Transfer::from_optical_display                                          *)
(***************************************************************************)
from_optical_display(self, value) ==
    LET a == value[4]
        rgb == <<value[1], value[2], value[3]>>
    IN CASE self = "Bt709" -> Value(WithAlpha(Map3("transfer_oe_bt709", rgb), a))
         [] self = "Bt470M" -> Value(WithAlpha(Map3("transfer_oe_bt470m", rgb), a))
         [] self = "Bt601" -> Value(WithAlpha(Map3("transfer_oe_bt601", rgb), a))
         [] self = "Smpte240" -> Value(WithAlpha(Map3("transfer_oe_smpte240", rgb), a))
         [] self = "Linear" -> Value(WithAlpha(rgb, a))
         [] self = "Srgb" -> Value(WithAlpha(Map3("transfer_oe_srgb", rgb), a))
         [] self = "Bt2020_10bit" -> Value(WithAlpha(Map3("transfer_oe_bt2020_10b", rgb), a))
         [] self = "Bt2020_12bit" -> Panic
         [] self = "Smpte2084" -> Value(WithAlpha(Map3("transfer_oe_smpte2084", rgb), a))
         [] self = "Bt2100Pq" -> Panic
         [] self = "Bt2100Hlg" -> Panic
         [] self = "Bt2100Scene" -> Panic

(***************************************************************************)
(* The slice forms.  A lookup returns Option<fn>: None, or a function      *)
(* pointer to one of the closures below.  A closure made by the macro      *)
(* optical_by_display! is named by its rule and by the $transfer path      *)
(* pasted into it.                                                         *)
(***************************************************************************)
Closure(tag, path) == [tag |-> tag, transfer |-> path]
Some(c) == [some |-> TRUE, closure |-> c]
None == [some |-> FALSE, closure |-> Closure("none", "none")]

\* to_optical_display_slice with a slip: the Bt601 arm pastes the Bt470M curve
to_optical_display_slice_pasted(self) ==
    IF self = "Linear"
    THEN Some(Closure("copy_from_slice", "none"))
    ELSE CASE self = "Bt709" -> Some(Closure("zip", "transfer_eo_bt709"))
           [] self = "Bt470M" -> Some(Closure("zip", "transfer_eo_bt470m"))
           [] self = "Bt601" -> Some(Closure("zip", "transfer_eo_bt470m"))
           [] self = "Smpte240" -> Some(Closure("zip", "transfer_eo_smpte240"))
           [] self = "Srgb" -> Some(Closure("zip", "transfer_eo_srgb"))
           [] self = "Bt2020_10bit" -> Some(Closure("zip", "transfer_eo_bt2020_10b"))
           [] OTHER -> None

(***************************************************************************)
(* Transfer::to_optical_display_slice                                      *)
(***************************************************************************)
to_optical_display_slice(self) ==
    IF self = "Linear"
    THEN Some(Closure("copy_from_slice", "none"))
    ELSE CASE self = "Bt709" -> Some(Closure("zip", "transfer_eo_bt709"))
           [] self = "Bt470M" -> Some(Closure("zip", "transfer_eo_bt470m"))
           [] self = "Bt601" -> Some(Closure("zip", "transfer_eo_bt601"))
           [] self = "Smpte240" -> Some(Closure("zip", "transfer_eo_smpte240"))
           [] self = "Srgb" -> Some(Closure("zip", "transfer_eo_srgb"))
           [] self = "Bt2020_10bit" -> Some(Closure("zip", "transfer_eo_bt2020_10b"))
           [] OTHER -> None

(***************************************************************************)
(* Transfer::to_optical_display_slice_inplace                              *)
(***************************************************************************)
to_optical_display_slice_inplace(self) ==
    IF self = "Linear"
    THEN Some(Closure("noop", "none"))
    ELSE CASE self = "Bt709" -> Some(Closure("for_in", "transfer_eo_bt709"))
           [] self = "Bt470M" -> Some(Closure("for_in", "transfer_eo_bt470m"))
           [] self = "Bt601" -> Some(Closure("for_in", "transfer_eo_bt601"))
           [] self = "Smpte240" -> Some(Closure("for_in", "transfer_eo_smpte240"))
           [] self = "Srgb" -> Some(Closure("for_in", "transfer_eo_srgb"))
           [] self = "Bt2020_10bit" -> Some(Closure("for_in", "transfer_eo_bt2020_10b"))
           [] OTHER -> None

(***************************************************************************)
(* Transfer::from_optical_display_slice                                    *)
(***************************************************************************)
from_optical_display_slice(self) ==
    IF self = "Linear"
    THEN Some(Closure("noop", "none"))
    ELSE CASE self = "Bt709" -> Some(Closure("iter_mut", "transfer_oe_bt709"))
           [] self = "Bt470M" -> Some(Closure("iter_mut", "transfer_oe_bt470m"))
           [] self = "Bt601" -> Some(Closure("iter_mut", "transfer_oe_bt601"))
           [] self = "Smpte240" -> Some(Closure("iter_mut", "transfer_oe_smpte240"))
           [] self = "Srgb" -> Some(Closure("iter_mut", "transfer_oe_srgb"))
           [] self = "Bt2020_10bit" -> Some(Closure("iter_mut", "transfer_oe_bt2020_10b"))
           [] OTHER -> None

(***************************************************************************)
(* The closures.  A closure returns () and leaves its result in the        *)
(* buffer it was given: Returned(buffer).                                  *)
(***************************************************************************)
Returned(buf) == [kind |-> "returned", value |-> buf]

Min(a, b) == IF a <= b THEN a ELSE b

\* let [r, g, b, a] = *texel;  let [r, g, b] = [r, g, b].map($transfer);  [r, g, b, a]
map_texel(path, texel) ==
    WithAlpha(Map3(path, <<texel[1], texel[2], texel[3]>>), texel[4])

\* body_read with a slip: an iteration reads the pixel before its own
body_read_prev(pixels, i) == pixels[IF i > 1 THEN i - 1 ELSE i]

\* the read and the write of one iteration of the in-place loops
body_read(pixels, i) == pixels[i]
body_write(pixels, i, v) == [pixels EXCEPT ![i] = v]

\* zip_closure with a slip: the loop stops one pair short
zip_closure_short(path, texels, pixels) ==
    [i \in 1..Len(pixels) |->
        IF i < Min(Len(texels), Len(pixels))
        THEN map_texel(path, texels[i])
        ELSE pixels[i]]

\* for (texel, target_pix) in texels.iter().zip(pixels) { *target_pix = ... }
zip_closure(path, texels, pixels) ==
    [i \in 1..Len(pixels) |->
        IF i <= Min(Len(texels), Len(pixels))
        THEN map_texel(path, texels[i])
        ELSE pixels[i]]

\* copy_from_slice with a slip: the copy goes the other way, y is left as it was
copy_from_slice_swapped(x, y) ==
    IF Len(x) # Len(y) THEN Panic ELSE [kind |-> "returned", value |-> y]

\* |x, y| y.copy_from_slice(x): panics unless the two lengths are equal
copy_from_slice(x, y) ==
    IF Len(x) # Len(y) THEN Panic ELSE Returned(x)

\* the pixels after the first n iterations of: for pix in pixels { ... }
RECURSIVE inplace_loop(_, _, _)
inplace_loop(path, pixels, n) ==
    IF n = 0
    THEN pixels
    ELSE LET before == inplace_loop(path, pixels, n - 1)
         IN body_write(before, n, map_texel(path, body_read(before, n)))

inplace_closure(path, pixels) == inplace_loop(path, pixels, Len(pixels))

\* |_| {}
noop_closure(pixels) == pixels

\* a call through the function pointer of an out-of-place lookup
call_out_of_place(f, texels, pixels) ==
    CASE f.tag = "copy_from_slice" -> copy_from_slice(texels, pixels)
      [] f.tag = "zip" -> Returned(zip_closure(f.transfer, texels, pixels))

\* a call through the function pointer of an in-place lookup
call_inplace(f, pixels) ==
    CASE f.tag = "noop" -> Returned(noop_closure(pixels))
      [] f.tag \in {"for_in", "iter_mut"} -> Returned(inplace_closure(f.transfer, pixels))

(***************************************************************************)
(* The numbers of the matrix builder.  The f32 operators +, -, *, / are    *)
(* modelled by exact arithmetic: that of the prime field of P elements,    *)
(* whose operations obey the field laws f32 follows up to rounding.  A     *)
(* decimal literal n / scale is the field element n * scale^-1.  A         *)
(* determinant that is not zero in the field is not zero in the rationals. *)
(***************************************************************************)
P == 32768 - 19

FAdd(a, b) == (a + b) % P
FSub(a, b) == (a + P - b) % P
FMul(a, b) == (a * b) % P

RECURSIVE FPow(_, _)
FPow(a, n) ==
    IF n = 0 THEN 1
    ELSE LET h == FPow(a, n \div 2)
             sq == FMul(h, h)
         IN IF n % 2 = 1 THEN FMul(sq, a) ELSE sq

FDiv(a, b) == FMul(a, FPow(b, P - 2))

Dec(n, scale) == FDiv(n % P, scale % P)

Whitepoint == {"A", "B", "C", "D50", "D55", "D65", "D75", "E", "F2", "F7", "F11"}

Primaries == {"Xyz", "Bt601_525", "Bt601_625", "Bt709", "Smpte240", "Bt2020", "Bt2100"}

(***************************************************************************)
(* Whitepoint::to_xyz                                                      *)
(***************************************************************************)
Whitepoint_to_xyz(self) ==
    CASE self = "A" -> <<Dec(109850, 100000), Dec(100000, 100000), Dec(35585, 100000)>>
      [] self = "B" -> <<Dec(99072, 100000), Dec(100000, 100000), Dec(85223, 100000)>>
      [] self = "C" -> <<Dec(98074, 100000), Dec(100000, 100000), Dec(118232, 100000)>>
      [] self = "D50" -> <<Dec(96422, 100000), Dec(100000, 100000), Dec(82521, 100000)>>
      [] self = "D55" -> <<Dec(95682, 100000), Dec(100000, 100000), Dec(92149, 100000)>>
      [] self = "D65" -> <<Dec(95047, 100000), Dec(100000, 100000), Dec(108883, 100000)>>
      [] self = "D75" -> <<Dec(94972, 100000), Dec(100000, 100000), Dec(122638, 100000)>>
      [] self = "E" -> <<Dec(100000, 100000), Dec(100000, 100000), Dec(100000, 100000)>>
      [] self = "F2" -> <<Dec(99186, 100000), Dec(100000, 100000), Dec(67393, 100000)>>
      [] self = "F7" -> <<Dec(95041, 100000), Dec(100000, 100000), Dec(108747, 100000)>>
      [] self = "F11" -> <<Dec(100962, 100000), Dec(100000, 100000), Dec(64350, 100000)>>

(***************************************************************************)
(* The matrix kernel (crate::matrix).  ColMatrix holds three columns,      *)
(* RowMatrix nine entries row by row.                                      *)
(***************************************************************************)
Dot(u, v) == FAdd(FAdd(FMul(u[1], v[1]), FMul(u[2], v[2])), FMul(u[3], v[3]))

Cross(u, v) ==
    <<FSub(FMul(u[2], v[3]), FMul(u[3], v[2])),
      FSub(FMul(u[3], v[1]), FMul(u[1], v[3])),
      FSub(FMul(u[1], v[2]), FMul(u[2], v[1]))>>

\* ColMatrix::det
ColMatrix_det(cols) == Dot(cols[1], Cross(cols[2], cols[3]))

\* ColMatrix::inv: the adjugate over the determinant.  Row i of the inverse
\* is the cross product of the other two columns, divided by the determinant.
ColMatrix_inv(cols) ==
    LET det == ColMatrix_det(cols)
        r1 == Cross(cols[2], cols[3])
        r2 == Cross(cols[3], cols[1])
        r3 == Cross(cols[1], cols[2])
    IN <<FDiv(r1[1], det), FDiv(r1[2], det), FDiv(r1[3], det),
         FDiv(r2[1], det), FDiv(r2[2], det), FDiv(r2[3], det),
         FDiv(r3[1], det), FDiv(r3[2], det), FDiv(r3[3], det)>>

\* RowMatrix::mul_vec: out[i] = dot(row i, v)
RowMatrix_mul_vec(m, v) ==
    <<Dot(<<m[1], m[2], m[3]>>, v),
      Dot(<<m[4], m[5], m[6]>>, v),
      Dot(<<m[7], m[8], m[9]>>, v)>>

(***************************************************************************)
(* Primaries::to_xyz                                                       *)
(***************************************************************************)
\* let xy: [[f32; 2]; 3] = match self { ... }; the Xyz arm is todo!()
Chromaticities(self) ==
    CASE self \in {"Bt601_525", "Smpte240"} ->
            <<<<Dec(63, 100), Dec(34, 100)>>, <<Dec(31, 100), Dec(595, 1000)>>,
              <<Dec(155, 1000), Dec(7, 100)>>>>
      [] self = "Bt601_625" ->
            <<<<Dec(64, 100), Dec(33, 100)>>, <<Dec(29, 100), Dec(6, 10)>>,
              <<Dec(15, 100), Dec(6, 100)>>>>
      [] self = "Bt709" ->
            <<<<Dec(64, 100), Dec(33, 100)>>, <<Dec(30, 100), Dec(60, 100)>>,
              <<Dec(15, 100), Dec(6, 100)>>>>
      [] self \in {"Bt2020", "Bt2100"} ->
            <<<<Dec(708, 1000), Dec(292, 1000)>>, <<Dec(170, 1000), Dec(797, 1000)>>,
              <<Dec(131, 1000), Dec(46, 1000)>>>>

\* let xyz = |[x, y]: [f32; 2]| [x / y, 1.0, (1.0 - x - y)/y];
xyz(xy) ==
    LET x == xy[1]
        y == xy[2]
    IN <<FDiv(x, y), 1, FDiv(FSub(FSub(1, x), y), y)>>

Matrix(m) == [kind |-> "matrix", value |-> m]

\* Primaries::to_xyz with a slip: row i, not column i, is s[i] times direction i
Primaries_to_xyz_rows(self, white) ==
    IF self = "Xyz"
    THEN Panic
    ELSE LET xy == Chromaticities(self)
             xyz_r == xyz(xy[1])
             xyz_g == xyz(xy[2])
             xyz_b == xyz(xy[3])
             n1 == ColMatrix_inv(<<xyz_r, xyz_g, xyz_b>>)
             w == Whitepoint_to_xyz(white)
             s == RowMatrix_mul_vec(n1, w)
         IN Matrix(<<
                FMul(s[1], xyz_r[1]), FMul(s[1], xyz_r[2]), FMul(s[1], xyz_r[3]),
                FMul(s[2], xyz_g[1]), FMul(s[2], xyz_g[2]), FMul(s[2], xyz_g[3]),
                FMul(s[3], xyz_b[1]), FMul(s[3], xyz_b[2]), FMul(s[3], xyz_b[3])>>)

Primaries_to_xyz(self, white) ==
    IF self = "Xyz"
    THEN Panic
    ELSE LET xy == Chromaticities(self)
             xyz_r == xyz(xy[1])
             xyz_g == xyz(xy[2])
             xyz_b == xyz(xy[3])
             n1 == ColMatrix_inv(<<xyz_r, xyz_g, xyz_b>>)
             w == Whitepoint_to_xyz(white)
             s == RowMatrix_mul_vec(n1, w)
         IN Matrix(<<
                FMul(s[1], xyz_r[1]), FMul(s[2], xyz_g[1]), FMul(s[3], xyz_b[1]),
                FMul(s[1], xyz_r[2]), FMul(s[2], xyz_g[2]), FMul(s[3], xyz_b[2]),
                FMul(s[1], xyz_r[3]), FMul(s[2], xyz_g[3]), FMul(s[3], xyz_b[3])>>)

(***************************************************************************)
(* RgbColorSpace and its two named descriptors (color/rgb.rs).             *)
(***************************************************************************)
SRGB == [luminance |-> "Sdr", primary |-> "Bt709", transfer |-> "Srgb", whitepoint |-> "D65"]
BT709_RGB == [luminance |-> "Sdr", primary |-> "Bt709", transfer |-> "Bt709", whitepoint |-> "D65"]

(***************************************************************************)
(* impl PixelConvert<Rgb<u8>> for Rgb<u16> (impls/rgb.rs): every body is   *)
(* todo!().                                                                *)
(***************************************************************************)
pixel_convert(pixel, source_colorspace, destination_colorspace) == Panic

pixel_convert_image(image, source_colorspace, destination_colorspace) == Panic

pixel_convert_image_with(input_image, output_image, source_colorspace, destination_colorspace) == Panic

(***************************************************************************)
(* The inputs a client draws its arguments from.                           *)
(***************************************************************************)
Sample == 0..(MaxBase + 3)

Pixels == {<<Raw(r), Raw(g), Raw(b), Raw(a)>> : r \in Sample, g \in Sample, b \in Sample, a \in Sample}

\* buffers are filled with pixels whose four channels differ
BufPixel(k) == <<Raw(k), Raw(k + 1), Raw(k + 2), Raw(k + 3)>>
BufPixels == {BufPixel(k) : k \in 0..MaxBase}
Buffers == UNION {[1..n -> BufPixels] : n \in 0..MaxLen}

\* the output buffer of an out-of-place call holds stale pixels
Stale == <<Raw(MaxBase + 4), Raw(MaxBase + 4), Raw(MaxBase + 4), Raw(MaxBase + 4)>>
OutBuffers == {[i \in 1..n |-> Stale] : n \in 0..MaxLen}

\* Rgb<u8> pixels and images of them
Rgb8 == [r : {0, 255}, g : {0, 255}, b : {0, 255}]
Images == UNION {[1..n -> {[r |-> 0, g |-> 0, b |-> 0], [r |-> 255, g |-> 128, b |-> 0]}] : n \in 0..MaxLen}
ColorSpaces == {SRGB, BT709_RGB}

NoRet == [kind |-> "none", value |-> <<>>]
NoArg == [transfer |-> "none"]

Workers == 1..NumWorkers

CallIdle ==
    /\ pc = "idle"
    /\ op = "none"
    /\ arg = NoArg
    /\ fnptr = None
    /\ ret = NoRet

ParIdle ==
    /\ shared = <<>>
    /\ orig = <<>>
    /\ pfn = Closure("none", "none")
    /\ chunks = [w \in Workers |-> [lo |-> 0, len |-> 0]]
    /\ wpc = [w \in Workers |-> "idle"]
    /\ wpos = [w \in Workers |-> 0]
    /\ wtmp = [w \in Workers |-> Stale]

Init == CallIdle /\ ParIdle

(***************************************************************************)
(* The calls of a client.                                                  *)
(***************************************************************************)
Call_to_optical_display ==
    /\ pc = "idle"
    /\ \E t \in Transfer, value \in Pixels :
          /\ arg' = [transfer |-> t, value |-> value]
          /\ ret' = to_optical_display(t, value)
    /\ op' = "to_optical_display"
    /\ pc' = "done"
    /\ UNCHANGED <<fnptr, parVars>>

Call_from_optical_display ==
    /\ pc = "idle"
    /\ \E t \in Transfer, value \in Pixels :
          /\ arg' = [transfer |-> t, value |-> value]
          /\ ret' = from_optical_display(t, value)
    /\ op' = "from_optical_display"
    /\ pc' = "done"
    /\ UNCHANGED <<fnptr, parVars>>

Lookup_to_optical_display_slice ==
    /\ pc = "idle"
    /\ \E t \in Transfer :
          /\ arg' = [transfer |-> t]
          /\ fnptr' = to_optical_display_slice(t)
    /\ op' = "to_optical_display_slice"
    /\ pc' = "looked"
    /\ UNCHANGED <<ret, parVars>>

Lookup_to_optical_display_slice_inplace ==
    /\ pc = "idle"
    /\ \E t \in Transfer :
          /\ arg' = [transfer |-> t]
          /\ fnptr' = to_optical_display_slice_inplace(t)
    /\ op' = "to_optical_display_slice_inplace"
    /\ pc' = "looked"
    /\ UNCHANGED <<ret, parVars>>

Lookup_from_optical_display_slice ==
    /\ pc = "idle"
    /\ \E t \in Transfer :
          /\ arg' = [transfer |-> t]
          /\ fnptr' = from_optical_display_slice(t)
    /\ op' = "from_optical_display_slice"
    /\ pc' = "looked"
    /\ UNCHANGED <<ret, parVars>>

\* the client calls the function it got from to_optical_display_slice
Invoke_out_of_place ==
    /\ pc = "looked"
    /\ op = "to_optical_display_slice"
    /\ fnptr.some
    /\ \E texels \in Buffers, pixels \in OutBuffers :
          /\ arg' = [transfer |-> arg.transfer, texels |-> texels, pixels |-> pixels]
          /\ ret' = call_out_of_place(fnptr.closure, texels, pixels)
    /\ pc' = "done"
    /\ UNCHANGED <<op, fnptr, parVars>>

\* the client calls the function it got from one of the two in-place lookups
Invoke_inplace ==
    /\ pc = "looked"
    /\ op \in {"to_optical_display_slice_inplace", "from_optical_display_slice"}
    /\ fnptr.some
    /\ \E pixels \in Buffers :
          /\ arg' = [transfer |-> arg.transfer, pixels |-> pixels]
          /\ ret' = call_inplace(fnptr.closure, pixels)
    /\ pc' = "done"
    /\ UNCHANGED <<op, fnptr, parVars>>

Call_Whitepoint_to_xyz ==
    /\ pc = "idle"
    /\ \E white \in Whitepoint :
          /\ arg' = [white |-> white]
          /\ ret' = Value(Whitepoint_to_xyz(white))
    /\ op' = "Whitepoint::to_xyz"
    /\ pc' = "done"
    /\ UNCHANGED <<fnptr, parVars>>

Call_Primaries_to_xyz ==
    /\ pc = "idle"
    /\ \E self \in Primaries, white \in Whitepoint :
          /\ arg' = [primaries |-> self, white |-> white]
          /\ ret' = Primaries_to_xyz(self, white)
    /\ op' = "Primaries::to_xyz"
    /\ pc' = "done"
    /\ UNCHANGED <<fnptr, parVars>>

Call_pixel_convert ==
    /\ pc = "idle"
    /\ \E pixel \in Rgb8, src \in ColorSpaces, dst \in ColorSpaces :
          /\ arg' = [pixel |-> pixel, source |-> src, destination |-> dst]
          /\ ret' = pixel_convert(pixel, src, dst)
    /\ op' = "pixel_convert"
    /\ pc' = "done"
    /\ UNCHANGED <<fnptr, parVars>>

Call_pixel_convert_image ==
    /\ pc = "idle"
    /\ \E image \in Images, src \in ColorSpaces, dst \in ColorSpaces :
          /\ arg' = [image |-> image, source |-> src, destination |-> dst]
          /\ ret' = pixel_convert_image(image, src, dst)
    /\ op' = "pixel_convert_image"
    /\ pc' = "done"
    /\ UNCHANGED <<fnptr, parVars>>

Call_pixel_convert_image_with ==
    /\ pc = "idle"
    /\ \E image \in Images, n \in 0..MaxLen, src \in ColorSpaces, dst \in ColorSpaces :
          /\ arg' = [image |-> image, output |-> [i \in 1..n |-> [r |-> 0, g |-> 0, b |-> 0]],
                     source |-> src, destination |-> dst]
          /\ ret' = pixel_convert_image_with(image, [i \in 1..n |-> [r |-> 0, g |-> 0, b |-> 0]], src, dst)
    /\ op' = "pixel_convert_image_with"
    /\ pc' = "done"
    /\ UNCHANGED <<fnptr, parVars>>

\* the client takes what it got (a result, a panic it caught, a lookup it drops)
\* and is free to call again
Return ==
    /\ pc \in {"looked", "done"}
    /\ pc' = "idle"
    /\ op' = "none"
    /\ arg' = NoArg
    /\ fnptr' = None
    /\ ret' = NoRet
    /\ UNCHANGED parVars

Next ==
    \/ Call_to_optical_display
    \/ Call_from_optical_display
    \/ Lookup_to_optical_display_slice
    \/ Lookup_to_optical_display_slice_inplace
    \/ Lookup_from_optical_display_slice
    \/ Invoke_out_of_place
    \/ Invoke_inplace
    \/ Call_Whitepoint_to_xyz
    \/ Call_Primaries_to_xyz
    \/ Call_pixel_convert
    \/ Call_pixel_convert_image
    \/ Call_pixel_convert_image_with
    \/ Return

Spec == Init /\ [][Next]_vars

(***************************************************************************)
(* The chunked run: one buffer, cut into NumWorkers contiguous chunks,     *)
(* each handed as its own &mut slice to a worker that calls the in-place   *)
(* closure on it.  A worker's iteration reads its pixel, then writes it;   *)
(* the workers' steps interleave freely.                                   *)
(***************************************************************************)
\* the cuts of a buffer of n pixels: worker w owns cut[w-1]+1 .. cut[w]
Cuts(n) ==
    {c \in [0..NumWorkers -> 0..n] :
        /\ c[0] = 0
        /\ c[NumWorkers] = n
        /\ \A w \in Workers : c[w - 1] <= c[w]}

\* the slice worker w was handed, and the buffer with that slice put back
ChunkView(buf, ch) == SubSeq(buf, ch.lo + 1, ch.lo + ch.len)
ChunkStore(buf, ch, slice) ==
    [i \in 1..Len(buf) |->
        IF ch.lo < i /\ i <= ch.lo + ch.len THEN slice[i - ch.lo] ELSE buf[i]]

ParSpawn ==
    /\ \A w \in Workers : wpc[w] = "idle"
    /\ \E t \in Transfer, buf \in Buffers,
          lookup \in {"to_optical_display_slice_inplace", "from_optical_display_slice"} :
          LET f == IF lookup = "to_optical_display_slice_inplace"
                   THEN to_optical_display_slice_inplace(t)
                   ELSE from_optical_display_slice(t)
          IN /\ f.some
             /\ pfn' = f.closure
             /\ shared' = buf
             /\ orig' = buf
             /\ \E c \in Cuts(Len(buf)) :
                   chunks' = [w \in Workers |-> [lo |-> c[w - 1], len |-> c[w] - c[w - 1]]]
    /\ wpc' = [w \in Workers |-> "next"]
    /\ UNCHANGED <<wpos, wtmp, callVars>>

\* the loop of worker w is over: |_| {} has none, the others ran out of pixels
ParExit(w) ==
    /\ wpc[w] = "next"
    /\ pfn.tag = "noop" \/ wpos[w] = chunks[w].len
    /\ wpc' = [wpc EXCEPT ![w] = "done"]
    /\ UNCHANGED <<shared, orig, pfn, chunks, wpos, wtmp, callVars>>

\* let [r, g, b, a] = *pix;
ParRead(w) ==
    /\ wpc[w] = "next"
    /\ pfn.tag # "noop"
    /\ wpos[w] < chunks[w].len
    /\ wtmp' = [wtmp EXCEPT ![w] = body_read(ChunkView(shared, chunks[w]), wpos[w] + 1)]
    /\ wpc' = [wpc EXCEPT ![w] = "write"]
    /\ UNCHANGED <<shared, orig, pfn, chunks, wpos, callVars>>

\* *pix = [r, g, b, a];
ParWrite(w) ==
    /\ wpc[w] = "write"
    /\ shared' = ChunkStore(shared, chunks[w],
                    body_write(ChunkView(shared, chunks[w]), wpos[w] + 1,
                               map_texel(pfn.transfer, wtmp[w])))
    /\ wpos' = [wpos EXCEPT ![w] = @ + 1]
    /\ wpc' = [wpc EXCEPT ![w] = "next"]
    /\ UNCHANGED <<orig, pfn, chunks, wtmp, callVars>>

\* the final join
ParJoin ==
    /\ \A w \in Workers : wpc[w] = "done"
    /\ wpc' = [w \in Workers |-> "joined"]
    /\ UNCHANGED <<shared, orig, pfn, chunks, wpos, wtmp, callVars>>

ParNext ==
    \/ ParSpawn
    \/ \E w \in Workers : ParExit(w)
    \/ \E w \in Workers : ParRead(w)
    \/ \E w \in Workers : ParWrite(w)
    \/ ParJoin

SpecPar == Init /\ [][ParNext]_vars

(***************************************************************************)
(* Vocabulary of the properties.                                           *)
(***************************************************************************)
\* the transfers with no numeric definition
Unimplemented == {"Bt2020_12bit", "Bt2100Pq", "Bt2100Hlg", "Bt2100Scene"}
\* the transfers with a scalar definition
ScalarDefined == Transfer \ Unimplemented

ScalarOps == {"to_optical_display", "from_optical_display"}
SliceOps == {"to_optical_display_slice", "to_optical_display_slice_inplace",
             "from_optical_display_slice"}

\* the scalar operation a slice form vectorizes
ScalarOf(o, t, px) ==
    IF o \in {"from_optical_display", "from_optical_display_slice"}
    THEN from_optical_display(t, px)
    ELSE to_optical_display(t, px)

\* the lookup named o
LookupOf(o, t) ==
    CASE o = "to_optical_display_slice" -> to_optical_display_slice(t)
      [] o = "to_optical_display_slice_inplace" -> to_optical_display_slice_inplace(t)
      [] o = "from_optical_display_slice" -> from_optical_display_slice(t)

\* the buffer a finished slice call converted
SliceInput == IF op = "to_optical_display_slice" THEN arg.texels ELSE arg.pixels

\* a finished slice call whose buffers agree in length (the in-place forms
\* have one buffer)
SliceDone ==
    /\ pc = "done"
    /\ op \in SliceOps
    /\ op = "to_optical_display_slice" => Len(arg.texels) = Len(arg.pixels)

\* the call returned, and element i of the buffer is what the scalar
\* operation returns for element i of the input
ElementwiseScalar ==
    /\ ret.kind = "returned"
    /\ Len(ret.value) = Len(SliceInput)
    /\ \A i \in 1..Len(SliceInput) :
          ret.value[i] = ScalarOf(op, arg.transfer, SliceInput[i]).value

(***************************************************************************)
(* C1: for each of the four transfers without a numeric definition and     *)
(* every pixel, to_optical_display and from_optical_display end in a       *)
(* NotImplemented outcome returned to the caller, never in a panic and     *)
(* never in a numeric pixel.                                               *)
(***************************************************************************)
C1_NotImplementedOutcome ==
    (pc = "done" /\ op \in ScalarOps /\ arg.transfer \in Unimplemented)
        => ret.kind = "not_implemented"

(***************************************************************************)
(* C2, as stated: for every transfer with a scalar definition, Smpte2084   *)
(* among them, each of the three lookups yields a vectorized conversion,   *)
(* and that conversion gives at every index the value of the scalar        *)
(* operation on that element (out of place: buffers of equal length).      *)
(***************************************************************************)
C2_EveryScalarTransferVectorized ==
    (pc \in {"looked", "done"} /\ op \in SliceOps /\ arg.transfer \in ScalarDefined)
        => /\ fnptr.some
           /\ SliceDone => ElementwiseScalar

(***************************************************************************)
(* C2, amended: the lookups yield a vectorized conversion for Linear,      *)
(* Srgb, Bt709, Bt470M, Bt601, Smpte240 and Bt2020_10bit and none (None)   *)
(* for Smpte2084; every conversion they yield gives at every index the     *)
(* value of the scalar operation on that element (out of place: buffers of *)
(* equal length).                                                          *)
(***************************************************************************)
C2_BufferEquivalence ==
    (pc \in {"looked", "done"} /\ op \in SliceOps /\ arg.transfer \in ScalarDefined)
        => /\ fnptr.some <=> arg.transfer # "Smpte2084"
           /\ SliceDone => ElementwiseScalar

C2_Witness ==
    /\ SliceDone
    /\ op = "to_optical_display_slice"
    /\ arg.transfer = "Bt601"
    /\ Len(arg.texels) >= 2
    /\ arg.texels[1] # arg.texels[2]
    /\ ret.kind = "returned"
    /\ ret.value # arg.pixels

(***************************************************************************)
(* C3: the lookups report two different outcomes for the two reasons a     *)
(* vectorized function can be missing: what a lookup returns for a         *)
(* transfer with no numeric definition differs from what it returns for    *)
(* any transfer that has a scalar form, so the caller can tell "not        *)
(* implemented" from "no vectorized form available".                       *)
(***************************************************************************)
C3_LookupTellsApart ==
    (pc = "looked" /\ op \in SliceOps /\ arg.transfer \in Unimplemented)
        => \A t \in ScalarDefined : LookupOf(op, t) # fnptr

(***************************************************************************)
(* C4: alpha passes through and the channels are independent: whenever a   *)
(* scalar operation or a vectorized form produces a result, the fourth     *)
(* component of each pixel is the input's, and output channel k of r, g, b *)
(* is one and the same function of input channel k alone (the value the    *)
(* scalar operation gives that sample, whatever the other channels hold).  *)
(***************************************************************************)
\* the curve of operation o and transfer t at sample x, read off a pixel
\* whose other channels are all z
CurveAt(o, t, x, z) == ScalarOf(o, t, <<x, z, z, z>>).value[1]

ChannelsOf(o, t, in, out) ==
    /\ out[4] = in[4]
    /\ \A k \in 1..3 : \A z \in {Raw(0), in[4]} : out[k] = CurveAt(o, t, in[k], z)

C4_AlphaAndChannels ==
    /\ (pc = "done" /\ op \in ScalarOps /\ ret.kind = "value")
          => ChannelsOf(op, arg.transfer, arg.value, ret.value)
    /\ (pc = "done" /\ op \in SliceOps /\ ret.kind = "returned")
          => \A i \in 1..Len(ret.value) :
                i <= Len(SliceInput)
                    => ChannelsOf(op, arg.transfer, SliceInput[i], ret.value[i])

C4_Witness ==
    /\ pc = "done"
    /\ op = "to_optical_display"
    /\ arg.transfer = "Srgb"
    /\ ret.kind = "value"
    /\ Cardinality({arg.value[k] : k \in 1..4}) = 4
    /\ ret.value[4] = arg.value[4]
    /\ ret.value[1] # arg.value[1]

(***************************************************************************)
(* C5: Linear is the identity in both directions and in every form: the    *)
(* scalar operations return the input pixel, each lookup yields a          *)
(* function, the out-of-place function leaves the output buffer equal to   *)
(* the input buffer (for buffers of equal length), and the in-place        *)
(* functions leave the buffer as it was.                                   *)
(***************************************************************************)
C5_LinearIdentity ==
    /\ (pc = "done" /\ op \in ScalarOps /\ arg.transfer = "Linear")
          => ret = Value(arg.value)
    /\ (pc \in {"looked", "done"} /\ op \in SliceOps /\ arg.transfer = "Linear")
          => fnptr.some
    /\ (SliceDone /\ arg.transfer = "Linear")
          => ret = Returned(SliceInput)

C5_Witness ==
    /\ SliceDone
    /\ op = "to_optical_display_slice"
    /\ arg.transfer = "Linear"
    /\ Len(arg.texels) >= 2
    /\ arg.pixels # arg.texels
    /\ ret = Returned(arg.texels)

(***************************************************************************)
(* Vocabulary of the matrix properties.                                    *)
(***************************************************************************)
\* a finished call of Primaries::to_xyz
XyzDone == pc = "done" /\ op = "Primaries::to_xyz"

\* the unweighted directions d_r, d_g, d_b of the primaries of the call
Directions ==
    <<xyz(Chromaticities(arg.primaries)[1]),
      xyz(Chromaticities(arg.primaries)[2]),
      xyz(Chromaticities(arg.primaries)[3])>>

\* the solved weights s = N^-1 * W of the call
Weights == RowMatrix_mul_vec(ColMatrix_inv(Directions), Whitepoint_to_xyz(arg.white))

\* entry (row j, column i) of a row-major matrix
Entry(m, j, i) == m[3 * (j - 1) + i]

(***************************************************************************)
(* C6: whitepoint preservation: for every Primaries variant and every      *)
(* Whitepoint variant, Primaries::to_xyz returns a matrix M whose row sums *)
(* (M times [1,1,1]) are the components of Whitepoint::to_xyz.             *)
(***************************************************************************)
C6_WhitepointPreservation ==
    XyzDone
        => /\ ret.kind = "matrix"
           /\ RowMatrix_mul_vec(ret.value, <<1, 1, 1>>) = Whitepoint_to_xyz(arg.white)

\* what holds of the matrices that are built: their row sums are the whitepoint
WhitepointPreservedWhereBuilt ==
    (XyzDone /\ ret.kind = "matrix")
        => RowMatrix_mul_vec(ret.value, <<1, 1, 1>>) = Whitepoint_to_xyz(arg.white)

(***************************************************************************)
(* C7: every variant of Primaries, the placeholder Xyz included, maps to   *)
(* three chromaticity pairs, so Primaries::to_xyz returns a matrix for     *)
(* every (Primaries, Whitepoint) pair, and the unweighted matrix of no     *)
(* variant is singular.                                                    *)
(***************************************************************************)
C7_MatrixForEveryPrimaries ==
    XyzDone
        => /\ ret.kind = "matrix"
           /\ Len(ret.value) = 9
           /\ ColMatrix_det(Directions) # 0

\* what holds of the variants that have a table entry: none is singular
NonSingularWhereBuilt ==
    (XyzDone /\ arg.primaries # "Xyz") => ColMatrix_det(Directions) # 0

(***************************************************************************)
(* C8: identity conversion: pixel_convert(pixel, cs, cs) returns the pixel *)
(* it was given, and pixel_convert_image / pixel_convert_image_with return *)
(* (leave in the output image) every element of the image unchanged.       *)
(***************************************************************************)
C8_IdentityConversion ==
    /\ (pc = "done" /\ op = "pixel_convert" /\ arg.source = arg.destination)
          => ret = Value(arg.pixel)
    /\ (pc = "done" /\ op = "pixel_convert_image" /\ arg.source = arg.destination)
          => ret = Value(arg.image)
    /\ (pc = "done" /\ op = "pixel_convert_image_with" /\ arg.source = arg.destination)
          => ret = Returned(arg.image)

(***************************************************************************)
(* C10: matrix assembly: with d_i the unweighted directions and s the      *)
(* solved weights, entry (row j, column i) of the returned row-major       *)
(* matrix is s[i] * d_i[j] (column i is s[i] times direction i), so that   *)
(* out[j] = dot(row j, rgb) is the sum over i of rgb[i] * s[i] * d_i[j].   *)
(***************************************************************************)
C10_ColumnAssembly ==
    (XyzDone /\ ret.kind = "matrix")
        => /\ \A j \in 1..3 : \A i \in 1..3 :
                 Entry(ret.value, j, i) = FMul(Weights[i], Directions[i][j])
           /\ \A rgb \in {<<1, 0, 0>>, <<0, 1, 0>>, <<0, 0, 1>>, <<1, 1, 1>>, <<1, 2, 3>>} :
                 \A j \in 1..3 :
                    RowMatrix_mul_vec(ret.value, rgb)[j] =
                        FAdd(FAdd(FMul(rgb[1], FMul(Weights[1], Directions[1][j])),
                                  FMul(rgb[2], FMul(Weights[2], Directions[2][j]))),
                             FMul(rgb[3], FMul(Weights[3], Directions[3][j])))

C10_Witness ==
    /\ XyzDone
    /\ arg.primaries = "Bt709"
    /\ arg.white = "D65"
    /\ ret.kind = "matrix"
    /\ Entry(ret.value, 1, 2) # Entry(ret.value, 2, 1)
    /\ Entry(ret.value, 1, 2) = FMul(Weights[2], Directions[2][1])

(***************************************************************************)
(* C9: the chunked run equals the sequential one: for every cut of the     *)
(* buffer into contiguous chunks and every interleaving of the workers,    *)
(* each pixel of a chunk is the sequential result once its worker has      *)
(* passed it and the original pixel until then (no worker touches a pixel  *)
(* of another chunk), and the joined buffer is the result of one call      *)
(* over the whole buffer.                                                  *)
(***************************************************************************)
\* one call of the closure over the whole buffer
Sequential == call_inplace(pfn, orig).value

C9_ChunkedEqualsSequential ==
    (\A w \in Workers : wpc[w] # "idle")
        => /\ Len(shared) = Len(orig)
           /\ \A w \in Workers : \A k \in 1..chunks[w].len :
                 shared[chunks[w].lo + k] =
                    IF k <= wpos[w]
                    THEN Sequential[chunks[w].lo + k]
                    ELSE orig[chunks[w].lo + k]
           /\ (\A w \in Workers : wpc[w] = "joined") => shared = Sequential

C9_Witness ==
    /\ \A w \in Workers : wpc[w] = "joined"
    /\ pfn.tag = "for_in"
    /\ Cardinality({w \in Workers : chunks[w].len > 0}) >= 2
    /\ \A i \in 1..Len(shared) : shared[i] # orig[i]
    /\ shared = Sequential

(***************************************************************************)
(* Vocabulary of the length property.                                      *)
(***************************************************************************)
\* a finished call of the function to_optical_display_slice returned, on an
\* input of any length m and an output of any length n
OutOfPlaceDone == pc = "done" /\ op = "to_optical_display_slice"

\* the call completed; the output positions below min(m, n) hold the decoded
\* input pixel of the same index, every other output position is as it was
WrittenUpToMin ==
    /\ ret.kind = "returned"
    /\ Len(ret.value) = Len(arg.pixels)
    /\ \A i \in 1..Len(arg.pixels) :
          ret.value[i] =
             IF i <= Min(Len(arg.texels), Len(arg.pixels))
             THEN to_optical_display(arg.transfer, arg.texels[i]).value
             ELSE arg.pixels[i]

(***************************************************************************)
(* C11, as stated: for every transfer that has a vectorized form, Linear   *)
(* among them, the out-of-place function completes on buffers of any       *)
(* lengths m and n, writes exactly the output positions below min(m, n),   *)
(* each with the decoded input pixel of the same index, and leaves the     *)
(* other output positions unchanged.                                       *)
(***************************************************************************)
C11_CompletesForAnyLengths == OutOfPlaceDone => WrittenUpToMin

(***************************************************************************)
(* C11, amended: for Bt709, Bt470M, Bt601, Smpte240, Srgb and Bt2020_10bit *)
(* the out-of-place function completes on buffers of any lengths m and n,  *)
(* writes exactly the output positions below min(m, n), each with the      *)
(* decoded input pixel of the same index, and leaves the other output      *)
(* positions unchanged; for Linear it does so when m = n and panics (in    *)
(* copy_from_slice) when m differs from n.                                 *)
(***************************************************************************)
C11_LengthHandling ==
    OutOfPlaceDone
        => IF arg.transfer = "Linear" /\ Len(arg.texels) # Len(arg.pixels)
           THEN ret.kind = "panic"
           ELSE WrittenUpToMin

C11_Witness ==
    /\ OutOfPlaceDone
    /\ arg.transfer = "Srgb"
    /\ Len(arg.texels) = 1
    /\ Len(arg.pixels) = 2
    /\ ret.kind = "returned"
    /\ ret.value[1] = to_optical_display("Srgb", arg.texels[1]).value
    /\ ret.value[1] # arg.pixels[1]
    /\ ret.value[2] = arg.pixels[2]

====
